---------------------------- MODULE Spec2Model ----------------------------
(***************************************************************************)
(* A model of the expression parser of parser.c: the lexer GetToken, the   *)
(* six precedence levels Primary .. CommaList, the symbol table            *)
(* (SaveSymbol / LookupSymbol), the error signal runtime_error (a longjmp  *)
(* to Evaluate) and the entry point Evaluate.                              *)
(*                                                                         *)
(* Text is a sequence of one-character strings.  A double is modelled as   *)
(* <<tag, n, d>>: an exact dyadic rational n/d ("num"), NaN ("nan"), the   *)
(* constants M_PI ("pi") and M_E ("e"), or "unk": a value this model does  *)
(* not represent exactly (a rounded quotient, an infinity, a magnitude     *)
(* beyond MaxAbs).  A call that meets such a value is left out of the      *)
(* behaviours (the guard of the actions), so every value the model states  *)
(* is the value the C code computes.                                       *)
(***************************************************************************)
EXTENDS Integers, Sequences, FiniteSets, TLC

(***************************************************************************)
(* Bounds of the model.                                                    *)
(***************************************************************************)
MaxAbs == 300
MaxDen == 4
MaxLit == 3

MAX_VARS == 100

\* #define MAX_WORD 1024: char word_[MAX_WORD]
MAX_WORD == 1024

(***************************************************************************)
(* Characters (ctype.h in the C locale).                                   *)
(***************************************************************************)
NUL == "NUL"
Digits == {"0", "1", "2", "3", "4", "5", "6", "7", "8", "9"}
Lower == {"a", "b", "c", "d", "e", "f", "g", "h", "i", "j", "k", "l", "m",
          "n", "o", "p", "q", "r", "s", "t", "u", "v", "w", "x", "y", "z"}
Upper == {"A", "B", "C", "D", "E", "F", "G", "H", "I", "J", "K", "L", "M",
          "N", "O", "P", "Q", "R", "S", "T", "U", "V", "W", "X", "Y", "Z"}
isdigit(c) == c \in Digits
isalpha(c) == c \in Lower \cup Upper
isalnum(c) == isalpha(c) \/ isdigit(c)
Spaces == {" ", "\t", "\n", "\r"}
isspace(c) == c \in Spaces
\* A character below ' ' that is not white space, written by its name.
ControlChars == {"BEL"}

DigitVal(c) ==
  CASE c = "0" -> 0 [] c = "1" -> 1 [] c = "2" -> 2 [] c = "3" -> 3
    [] c = "4" -> 4 [] c = "5" -> 5 [] c = "6" -> 6 [] c = "7" -> 7
    [] c = "8" -> 8 [] c = "9" -> 9

\* *(p + i - 1): the character at a 1-based offset; the terminating NUL after it.
CharAt(txt, i) == IF i >= 1 /\ i <= Len(txt) THEN txt[i] ELSE NUL

(***************************************************************************)
(* Doubles.                                                                *)
(***************************************************************************)
NaN == <<"nan", 0, 1>>
M_PI == <<"pi", 0, 1>>
M_E == <<"e", 0, 1>>
Unk == <<"unk", 0, 1>>

AbsInt(n) == IF n < 0 THEN -n ELSE n

RECURSIVE Gcd(_, _)
Gcd(a, b) == IF b = 0 THEN a ELSE Gcd(b, a % b)

RECURSIVE IsPow2(_)
IsPow2(d) == IF d = 1 THEN TRUE ELSE IF d % 2 # 0 THEN FALSE ELSE IsPow2(d \div 2)

\* The double n/d (d # 0), when it is exact and within the model's bounds.
Mk(n, d) ==
  LET sn == IF d < 0 THEN -n ELSE n
      sd == AbsInt(d)
      g == Gcd(AbsInt(sn), sd)
      rn == sn \div g
      rd == sd \div g
  IN IF AbsInt(rn) > MaxAbs \/ rd > MaxDen \/ ~IsPow2(rd) THEN Unk
     ELSE <<"num", rn, rd>>

Num(n) == Mk(n, 1)
Zero == <<"num", 0, 1>>
One == <<"num", 1, 1>>
Bool(b) == IF b THEN One ELSE Zero

IsNum(x) == x[1] = "num"
IsUnk(x) == x[1] = "unk"
IsNaN(x) == x[1] = "nan"
IsSym(x) == x[1] \in {"pi", "e"}
IsInt(x) == IsNum(x) /\ x[3] = 1

\* x == 0.0 (NaN, M_PI and M_E are not zero; not decided for "unk").
IsZero(x) == IsNum(x) /\ x[2] = 0

Neg(x) == IF IsNum(x) THEN Mk(-x[2], x[3]) ELSE IF IsNaN(x) THEN NaN ELSE Unk

Add(x, y) ==
  IF IsUnk(x) \/ IsUnk(y) THEN Unk
  ELSE IF IsNaN(x) \/ IsNaN(y) THEN NaN
  ELSE IF IsSym(x) \/ IsSym(y) THEN Unk
  ELSE Mk(x[2] * y[3] + y[2] * x[3], x[3] * y[3])

Sub(x, y) ==
  IF IsUnk(x) \/ IsUnk(y) THEN Unk
  ELSE IF IsNaN(x) \/ IsNaN(y) THEN NaN
  ELSE IF IsSym(x) \/ IsSym(y) THEN Unk
  ELSE Mk(x[2] * y[3] - y[2] * x[3], x[3] * y[3])

Mul(x, y) ==
  IF IsUnk(x) \/ IsUnk(y) THEN Unk
  ELSE IF IsNaN(x) \/ IsNaN(y) THEN NaN
  ELSE IF IsSym(x) \/ IsSym(y) THEN Unk
  ELSE Mk(x[2] * y[2], x[3] * y[3])

\* x / y in IEEE arithmetic: 0/0 is NaN, any other x/0 an infinity.
Div(x, y) ==
  IF IsUnk(x) \/ IsUnk(y) THEN Unk
  ELSE IF IsNaN(x) \/ IsNaN(y) THEN NaN
  ELSE IF IsSym(x) \/ IsSym(y) THEN Unk
  ELSE IF y[2] = 0 THEN (IF x[2] = 0 THEN NaN ELSE Unk)
  ELSE Mk(x[2] * y[3], x[3] * y[2])

\* The comparisons of C on doubles: every ordered comparison with a NaN is false.
Cmp(op, x, y) ==
  IF IsUnk(x) \/ IsUnk(y) THEN Unk
  ELSE IF IsNaN(x) \/ IsNaN(y) THEN Bool(op = "!=")
  ELSE IF IsSym(x) \/ IsSym(y) THEN
         (IF x = y THEN Bool(op \in {"<=", ">=", "=="}) ELSE Unk)
  ELSE LET l == x[2] * y[3]
           r == y[2] * x[3]
       IN CASE op = "<" -> Bool(l < r)
            [] op = ">" -> Bool(l > r)
            [] op = "<=" -> Bool(l <= r)
            [] op = ">=" -> Bool(l >= r)
            [] op = "==" -> Bool(l = r)
            [] op = "!=" -> Bool(l # r)

\* x != 0.0 as a C truth value; "unk" stays undecided.
Truth(x) == ~IsZero(x)

RECURSIVE IntPow(_, _)
IntPow(x, n) == IF n = 0 THEN One ELSE Mul(IntPow(x, n - 1), x)

\* pow(x, y) of math.h on the values of the model.
Pow(x, y) ==
  IF IsUnk(x) \/ IsUnk(y) THEN Unk
  ELSE IF IsZero(y) THEN One
  ELSE IF x = One THEN One
  ELSE IF IsNaN(x) \/ IsNaN(y) THEN NaN
  ELSE IF IsSym(x) \/ IsSym(y) THEN Unk
  ELSE IF IsInt(y) THEN
         (IF y[2] > 0 THEN IntPow(x, y[2])
          ELSE IF x[2] = 0 THEN Unk
          ELSE Div(One, IntPow(x, -y[2])))
  ELSE IF x[2] < 0 THEN NaN
  ELSE Unk


(***************************************************************************)
(* Function tables (fun1_table, fun2_table, fun3_table), in table order.   *)
(***************************************************************************)
fun1_table ==
  << <<"a","b","s">>, <<"a","c","o","s">>, <<"a","s","i","n">>,
     <<"a","t","a","n">>, <<"a","t","a","n","h">>, <<"c","e","i","l">>,
     <<"c","o","s">>, <<"c","o","s","h">>, <<"e","x","p">>, <<"e","x","p">>,
     <<"f","l","o","o","r">>, <<"l","o","g">>, <<"l","o","g","1","0">>,
     <<"s","i","n">>, <<"s","i","n","h">>, <<"s","q","r","t">>,
     <<"t","a","n">>, <<"t","a","n","h">>, <<"D","o","I","n","t">>,
     <<"i","n","t">>, <<"r","a","n","d">>,
     <<"p","e","r","c","e","n","t">> >>

fun2_table ==
  << <<"m","i","n">>, <<"m","a","x">>, <<"m","o","d">>, <<"p","o","w">> >>

fun3_table == << <<"i","f">> >>

\* The index of the first entry of a table with this name; 0 for NULL.
LookupIn(table, name) ==
  LET I == {i \in 1..Len(table) : table[i] = name}
  IN IF I = {} THEN 0 ELSE CHOOSE i \in I : \A j \in I : i <= j

LookupFun1(name) == LookupIn(fun1_table, name)
LookupFun2(name) == LookupIn(fun2_table, name)
LookupFun3(name) == LookupIn(fun3_table, name)

\* floor(x) of an exact rational, as an integer.
FloorInt(x) == x[2] \div x[3]
\* Truncation toward zero, as the conversion (int)x does it.
TruncInt(x) == IF x[2] >= 0 THEN x[2] \div x[3] ELSE -((-x[2]) \div x[3])

DoInt(arg) == IF IsNum(arg) THEN Num(TruncInt(arg)) ELSE Unk

Sqrt(x) ==
  IF IsNaN(x) THEN NaN
  ELSE IF ~IsNum(x) THEN Unk
  ELSE IF x[2] < 0 THEN NaN
  ELSE LET R == {r \in 0..MaxAbs : r * r = x[2]}
           Q == {q \in 1..MaxDen : q * q = x[3]}
       IN IF R = {} \/ Q = {} THEN Unk
          ELSE Mk(CHOOSE r \in R : TRUE, CHOOSE q \in Q : TRUE)

\* si->fun(v) for the 1-argument functions the model computes exactly; the
\* transcendental ones are left as "unk" (rand and percent: CallFun1In).
CallFun1(name, v) ==
  IF IsUnk(v) THEN Unk
  ELSE CASE name = <<"a","b","s">> ->
              (IF IsNum(v) THEN Mk(AbsInt(v[2]), v[3])
               ELSE IF IsNaN(v) THEN NaN ELSE v)
         [] name = <<"c","e","i","l">> ->
              (IF IsNum(v) THEN Num(-FloorInt(Neg(v)))
               ELSE IF IsNaN(v) THEN NaN ELSE Unk)
         [] name = <<"f","l","o","o","r">> ->
              (IF IsNum(v) THEN Num(FloorInt(v))
               ELSE IF IsNaN(v) THEN NaN ELSE Unk)
         [] name = <<"s","q","r","t">> -> Sqrt(v)
         [] name \in {<<"i","n","t">>, <<"D","o","I","n","t">>} -> DoInt(v)
         [] OTHER -> (IF IsNaN(v) /\ name \notin {<<"r","a","n","d">>,
                                                  <<"p","e","r","c","e","n","t">>}
                      THEN NaN ELSE Unk)

DoMin(arg1, arg2) ==
  LET c == Cmp("<", arg1, arg2)
  IN IF IsUnk(c) THEN Unk ELSE IF c = One THEN arg1 ELSE arg2

DoMax(arg1, arg2) ==
  LET c == Cmp(">", arg1, arg2)
  IN IF IsUnk(c) THEN Unk ELSE IF c = One THEN arg1 ELSE arg2

\* fmod(x, y) for y # 0: x - y * trunc(x / y), with the sign of x.
Fmod(x, y) ==
  IF IsUnk(x) \/ IsUnk(y) THEN Unk
  ELSE IF IsNaN(x) \/ IsNaN(y) THEN NaN
  ELSE IF IsSym(x) \/ IsSym(y) THEN Unk
  ELSE IF y[2] = 0 THEN NaN
  ELSE LET q == Div(x, y)
       IN IF IsUnk(q) THEN
            \* an inexact quotient: decide the truncation on integers
            LET a == x[2] * y[3]
                b == y[2] * x[3]
                t == IF (a >= 0) = (b > 0) THEN AbsInt(a) \div AbsInt(b)
                     ELSE -(AbsInt(a) \div AbsInt(b))
            IN Sub(x, Mul(y, Num(t)))
          ELSE Sub(x, Mul(y, Num(TruncInt(q))))

\* DoPow: repeated multiplication for an integer exponent in 1..64, else pow().
DoPow(arg1, arg2) ==
  IF IsInt(arg2) /\ arg2[2] > 0 /\ arg2[2] <= 64 /\ ~IsUnk(arg1) /\ ~IsSym(arg1)
  THEN (IF IsNaN(arg1) THEN NaN ELSE IntPow(arg1, arg2[2]))
  ELSE IF IsInt(arg2) /\ arg2[2] > 0 /\ arg2[2] <= 64 THEN Unk
  ELSE Pow(arg1, arg2)

DoIf(arg1, arg2, arg3) ==
  IF IsUnk(arg1) THEN Unk ELSE IF Truth(arg1) THEN arg2 ELSE arg3

(***************************************************************************)
(* The state one call works on, as a record s:                             *)
(*   expr, pWord, pWordStart   the text and the offsets pWord_ and         *)
(*                             pWordStart_ point at (1-based)              *)
(*   type, word, value         type_, word_, value_                        *)
(*   vars_lhs, vars_rhs, num_vars   the symbol table                       *)
(*   err                       ParserErrBuf: << >> when empty, else        *)
(*                             <<"Error! ", format, argument>>             *)
(*   jumped                    longjmp(parse_err_jmp_buf) was taken: the   *)
(*                             call is unwinding to Evaluate               *)
(*   ret                       the value the function just left returned   *)
(*   now                       what time() and gettimeofday() read         *)
(*   oob                       a write landed outside vars_lhs / vars_rhs  *)
(*   wordOob                   a write landed outside word_                *)
(*   crashed                   the call did not return to its caller       *)
(*   unk                       a value outside the model was met           *)
(*   zdiv                      the zero divisor evaluated, if any: <<"/",   *)
(*                             n>>, <<"/=", n>> or <<"mod", n>>            *)
(*   saves                     the SaveSymbol calls made, in order         *)
(*   tokens                    the tokens GetToken yielded, in order, each *)
(*                             <<type_, pWord_ on entry, pWord_ on exit>>  *)
(*   errAt                     << >>, or at the first runtime_error of the *)
(*                             call <<Len(saves), Len(tokens)>>            *)
(*   seedings                  the number of initRandom calls made         *)
(*   rands                     what the coming rand() calls return         *)
(***************************************************************************)
NAME_PI == <<"p", "i">>
NAME_E == <<"e">>
NAME_TIME == <<"t", "i", "m", "e">>
NAME_TIMEMS == <<"t", "i", "m", "e", "m", "s">>

\* runtime_error formatting the message and then returning to its caller.
runtime_errorReturns(s, fmt, arg) ==
  [s EXCEPT !.err = <<"Error! ", fmt, arg>>,
            !.errAt = IF @ = << >> THEN <<Len(s.saves), Len(s.tokens)>> ELSE @]

\* runtime_error(fmt, arg): format the message into ParserErrBuf and longjmp.
runtime_error(s, fmt, arg) ==
  [s EXCEPT !.err = <<"Error! ", fmt, arg>>, !.jumped = TRUE,
            !.errAt = IF @ = << >> THEN <<Len(s.saves), Len(s.tokens)>> ELSE @]

\* return v from one of the precedence levels.
Ret(s, v) == [s EXCEPT !.ret = v, !.unk = @ \/ IsUnk(v)]

(***************************************************************************)
(* The symbol table.                                                       *)
(***************************************************************************)
NO_LHS_MATCH == NaN

SaveSymbol(s, lhs, rhs) ==
  LET I == {i \in 1..s.num_vars : s.vars_lhs[i] = lhs}
      logged == [s EXCEPT !.saves = Append(@, <<lhs, rhs>>)]
  IN IF I # {} THEN
       LET i == CHOOSE k \in I : \A j \in I : k <= j
       IN [logged EXCEPT !.vars_rhs[i] = rhs]
     ELSE
       \* not found: vars_lhs[num_vars] and vars_rhs[num_vars] are written
       \* whether or not num_vars < MAX_VARS
       [logged EXCEPT !.vars_lhs = Append(@, lhs),
                      !.vars_rhs = Append(@, rhs),
                      !.num_vars = @ + 1,
                      !.oob = @ \/ s.num_vars >= MAX_VARS]

LookupSymbol(s, lhs) ==
  IF lhs = NAME_TIME THEN Num(s.now.tv_sec)
  ELSE IF lhs = NAME_TIMEMS THEN
    Add(Mul(Num(s.now.tv_sec), Num(1000)), Div(Num(s.now.tv_usec), Num(1000)))
  ELSE
    LET I == {i \in 1..s.num_vars : s.vars_lhs[i] = lhs}
    IN IF I # {} THEN s.vars_rhs[CHOOSE k \in I : \A j \in I : k <= j]
       ELSE NO_LHS_MATCH

(***************************************************************************)
(* Sequencing.  Let names a value once, as a C local does.  AndThen is    *)
(* what the longjmp of runtime_error does to the rest of a call: once      *)
(* jumped is set nothing more of the call runs, and the state travels      *)
(* unchanged up to the setjmp in Evaluate.                                 *)
(***************************************************************************)
Let(v, F(_)) == F(v)
AndThen(s, F(_)) == IF s.jumped THEN s ELSE F(s)

(***************************************************************************)
(* The lexer.                                                              *)
(***************************************************************************)
\* The first offset at or after i whose character is not in S (the NUL at
\* the end of the text is in no S).
Skip(txt, i, S) ==
  IF i < 1 \/ i > Len(txt) THEN i
  ELSE LET stops == {j \in i..Len(txt) : txt[j] \notin S}
       IN IF stops = {} THEN Len(txt) + 1
          ELSE CHOOSE j \in stops : \A k \in stops : j <= k

RECURSIVE DigitsVal(_, _, _, _)
\* The decimal value of the digits txt[i..j-1], appended to acc.
DigitsVal(txt, i, j, acc) ==
  IF i >= j THEN acc
  ELSE IF acc > 100000 THEN acc
  ELSE IF acc = 0 /\ txt[i] = "0" /\ Skip(txt, i, {"0"}) <= j
    THEN DigitsVal(txt, Skip(txt, i, {"0"}), j, 0)
  ELSE DigitsVal(txt, i + 1, j, acc * 10 + DigitVal(txt[i]))

RECURSIVE Pow10(_)
Pow10(k) == IF k = 0 THEN 1 ELSE 10 * Pow10(k - 1)

\* The value of sign * mant * 10^sc, and the offset the conversion stops at.
strtodValue(sign, mant, sc, stop) ==
  IF mant > 100000 \/ AbsInt(sc) > 5 THEN
    <<(IF mant = 0 THEN Zero ELSE Unk), stop>>
  ELSE IF sc >= 0 THEN <<Mk(sign * mant * Pow10(sc), 1), stop>>
  ELSE <<Mk(sign * mant, Pow10(-sc)), stop>>

\* strtod(w, &p): <<the value, the offset p stops at>>; no conversion leaves p
\* at the start.  i1..iA are the integer digits, mend ends the mantissa, j..k
\* are the digits of an exponent.
strtod(w) ==
  Let(IF CharAt(w, 1) \in {"+", "-"} THEN 2 ELSE 1, LAMBDA i1 :
  Let(Skip(w, i1, Digits), LAMBDA iA :
  Let(IF CharAt(w, iA) = "." THEN Skip(w, iA + 1, Digits) ELSE iA, LAMBDA mend :
  Let(IF CharAt(w, mend + 1) \in {"+", "-"} THEN mend + 2 ELSE mend + 1, LAMBDA j :
  Let(Skip(w, j, Digits), LAMBDA k :
  Let(IF mend > iA THEN mend - (iA + 1) ELSE 0, LAMBDA nfrac :
  Let(CharAt(w, mend) \in {"e", "E"} /\ k > j, LAMBDA hasexp :
    IF (iA - i1) + nfrac = 0 THEN <<Zero, 1>>
    ELSE strtodValue(IF CharAt(w, 1) = "-" THEN -1 ELSE 1,
                     DigitsVal(w, iA + 1, mend, DigitsVal(w, i1, iA, 0)),
                     (IF hasexp
                      THEN (IF CharAt(w, mend + 1) = "-" THEN -1 ELSE 1)
                           * DigitsVal(w, j, k, 0)
                      ELSE 0) - nfrac,
                     IF hasexp THEN k ELSE mend))))))))

TwoCharType(c) ==
  CASE c = "=" -> "=="
    [] c = "<" -> "<="
    [] c = ">" -> ">="
    [] c = "!" -> "!="
    [] c = "+" -> "+="
    [] c = "-" -> "-="
    [] c = "*" -> "*="
    [] c = "/" -> "/="
    [] OTHER -> "NONE"

SingleChars == {"=", "<", ">", "+", "-", "/", "*", "^", "(", ")", ",", "!"}

\* STRNCPY(word_, pWordStart_, len) for the len characters w: strncpy writes
\* word_[0 .. len-1] and the macro then writes word_[len].
STRNCPY(s, w) == [s EXCEPT !.word = w, !.wordOob = @ \/ Len(w) >= MAX_WORD]

\* GetToken, the numeric literal: the characters p0 .. q3-1 are copied to
\* word_ and converted with strtod.
GetTokenNumber(s, p0, q3) ==
  Let(SubSeq(s.expr, p0, q3 - 1), LAMBDA w :
  Let(strtod(w), LAMBDA conv :
  Let([STRNCPY(s, w) EXCEPT !.pWord = q3, !.value = conv[1]], LAMBDA s1 :
    IF conv[2] <= Len(w) THEN runtime_error(s1, "Bad numeric literal: %s", w)
    ELSE [s1 EXCEPT !.type = "NUMBER"])))

\* The test for the start of a name, had it taken an underscore too.
IsNameStartUnderscore(cFirstCharacter) ==
  isalpha(cFirstCharacter) \/ cFirstCharacter = "_"

\* The test of GetToken for the start of a name: a letter.
IsNameStart(cFirstCharacter) == isalpha(cFirstCharacter)

\* GetToken, the operators and names; s2 is s after the default of the
\* two-character switch, which assigns type_ = NONE before falling through.
GetTokenSymbol(s, s2, p0, cFirstCharacter, cNextCharacter, two) ==
  IF two \notin {"none", "NONE"} THEN
    [s EXCEPT !.type = two, !.word = SubSeq(s.expr, p0, p0 + 1),
              !.pWord = p0 + 2]
  ELSE IF cFirstCharacter = "&" /\ cNextCharacter = "&" THEN
    [s2 EXCEPT !.type = "&&", !.word = SubSeq(s.expr, p0, p0 + 1),
               !.pWord = p0 + 2]
  ELSE IF cFirstCharacter = "|" /\ cNextCharacter = "|" THEN
    [s2 EXCEPT !.type = "||", !.word = SubSeq(s.expr, p0, p0 + 1),
               !.pWord = p0 + 2]
  ELSE IF cFirstCharacter \in SingleChars THEN
    [s2 EXCEPT !.type = cFirstCharacter, !.word = <<cFirstCharacter>>,
               !.pWord = p0 + 1]
  ELSE IF ~IsNameStart(cFirstCharacter) THEN
    IF cFirstCharacter \in ControlChars
    THEN runtime_error(s2, "Unexpected character 0x%02x", <<cFirstCharacter>>)
    ELSE runtime_error(s2, "Unexpected character '%c'", <<cFirstCharacter>>)
  ELSE
    Let(Skip(s.expr, p0, Lower \cup Upper \cup Digits \cup {"_"}), LAMBDA q :
      [STRNCPY(s2, SubSeq(s.expr, p0, q - 1)) EXCEPT !.type = "NAME",
                                                     !.pWord = q])

\* The test for a number, had it taken a sign whatever ignoreSign says.
IsNumberStartAnySign(cFirstCharacter, cNextCharacter, ignoreSign) ==
  \/ (cFirstCharacter \in {"+", "-"}
        /\ (isdigit(cNextCharacter) \/ cNextCharacter = "."))
  \/ isdigit(cFirstCharacter)
  \/ (cFirstCharacter = "." /\ isdigit(cNextCharacter))

\* The test of GetToken for a number: a sign followed by a digit or a
\* point unless ignoreSign, a digit, or a point followed by a digit.
IsNumberStart(cFirstCharacter, cNextCharacter, ignoreSign) ==
  \/ (~ignoreSign /\ cFirstCharacter \in {"+", "-"}
        /\ (isdigit(cNextCharacter) \/ cNextCharacter = "."))
  \/ isdigit(cFirstCharacter)
  \/ (cFirstCharacter = "." /\ isdigit(cNextCharacter))

\* GetToken after *word_ = '\0', the skipped spaces and pWordStart_ = pWord_.
GetTokenAt(s, p0, cFirstCharacter, cNextCharacter, ignoreSign) ==
  IF cFirstCharacter = NUL /\ s.type = "END" THEN
    runtime_error(s, "Unexpected end of expression", << >>)
  ELSE IF cFirstCharacter = NUL THEN
    [s EXCEPT !.word = <<"<end of expression>">>, !.type = "END"]
  ELSE IF IsNumberStart(cFirstCharacter, cNextCharacter, ignoreSign) THEN
    Let(Skip(s.expr, IF cFirstCharacter \in {"+", "-"} THEN p0 + 1 ELSE p0,
             Digits \cup {"."}), LAMBDA q2 :
      GetTokenNumber(s, p0,
                     IF CharAt(s.expr, q2) \in {"e", "E"}
                     THEN Skip(s.expr,
                               IF CharAt(s.expr, q2 + 1) \in {"+", "-"}
                               THEN q2 + 2 ELSE q2 + 1,
                               Digits)
                     ELSE q2))
  ELSE
    Let(IF cNextCharacter = "=" THEN TwoCharType(cFirstCharacter) ELSE "none",
        LAMBDA two :
      GetTokenSymbol(s, IF two = "NONE" THEN [s EXCEPT !.type = "NONE"] ELSE s,
                     p0, cFirstCharacter, cNextCharacter, two))

\* The token a GetToken call entered at offset from returned with, noted.
NoteToken(s, from) ==
  IF s.jumped THEN s
  ELSE [s EXCEPT !.tokens = Append(@, <<s.type, from, s.pWord>>)]

GetToken(s0, ignoreSign) ==
  Let(Skip(s0.expr, s0.pWord, Spaces), LAMBDA p0 :
    NoteToken(
      GetTokenAt([s0 EXCEPT !.word = << >>, !.pWord = p0, !.pWordStart = p0],
                 p0, CharAt(s0.expr, p0), CharAt(s0.expr, p0 + 1), ignoreSign),
      s0.pWord))

(***************************************************************************)
(* The precedence levels.  Each takes the state and the flag get, and      *)
(* returns the state with its value in ret; once jumped is set the state   *)
(* is handed back unchanged up to Evaluate.                                *)
(***************************************************************************)
\* CheckToken(wanted)
CheckToken(s, wanted) ==
  IF s.type # wanted THEN runtime_error(s, "expected '%c'", <<wanted>>) ELSE s

\* initRandom: srand(time(NULL))
initRandom(s) == [s EXCEPT !.rng = s.now.tv_sec, !.seedings = @ + 1]

\* di->fun(v1, v2) for the 2-argument table; DoFmod signals a zero divisor.
CallFun2(s, name, v1, v2) ==
  CASE name = <<"m","i","n">> -> Ret(s, DoMin(v1, v2))
    [] name = <<"m","a","x">> -> Ret(s, DoMax(v1, v2))
    [] name = <<"m","o","d">> ->
         (IF IsZero(v2) THEN runtime_error(s, "Divide by zero in mod", << >>)
          ELSE Ret(s, Fmod(v1, v2)))
    [] name = <<"p","o","w">> -> Ret(s, DoPow(v1, v2))

\* The zero divisor just evaluated, noted for the properties below with the
\* number of SaveSymbol calls the call had made by then.
NoteZero(s, d, what) ==
  IF IsZero(d) THEN [s EXCEPT !.zdiv = <<what, Len(s.saves)>>] ELSE s

\* The return of v without the SaveSymbol call.
StoreNothing(s, word, v) == Ret(s, v)

\* SaveSymbol(word, v) followed by the return of v.
Store(s, word, v) == Ret(SaveSymbol(s, word, v), v)

\* The test for a name LookupSymbol did not find, had it been an isnan test.
IsNoMatchByNaN(v) == IsNaN(v)

\* (v = LookupSymbol(word)) == NO_LHS_MATCH: an == against a NaN.
IsNoMatch(v) == Cmp("==", v, NO_LHS_MATCH) = One

\* The assignment cases without the test of the divisor of /=.
PrimaryAssignNoZeroTest(op, r, word, v) ==
  CASE op = "=" -> Store(r, word, r.ret)
    [] op = "+=" -> Store(r, word, Add(v, r.ret))
    [] op = "-=" -> Store(r, word, Sub(v, r.ret))
    [] op = "*=" -> Store(r, word, Mul(v, r.ret))
    [] op = "/=" -> Store(NoteZero(r, r.ret, "/="), word, Div(v, r.ret))

\* The assignment cases of Primary: r is the state after Expression(true)
\* returned the right-hand side, v the value LookupSymbol gave for word.
PrimaryAssign(op, r, word, v) ==
  CASE op = "=" -> Store(r, word, r.ret)
    [] op = "+=" -> Store(r, word, Add(v, r.ret))
    [] op = "-=" -> Store(r, word, Sub(v, r.ret))
    [] op = "*=" -> Store(r, word, Mul(v, r.ret))
    [] op = "/=" ->
         (IF IsZero(r.ret)
          THEN runtime_error(NoteZero(r, r.ret, "/="), "Divide by zero", << >>)
          ELSE Store(r, word, Div(v, r.ret)))

AssignTypes == {"=", "+=", "-=", "*=", "/="}

\* RAND_MAX of the C library: the least value the C standard allows (the value
\* of the WIN32 build); RAND_MAX + 1 is a power of two, so the division and
\* the product of getrandom are exact in a double.
RAND_MAX == 32767

\* getrandom(x): 0 for x <= 0 without a call of rand(); else
\* floor(((rand() % RAND_MAX) / (RAND_MAX + 1.0)) * x), the value of rand()
\* taken from s.rands ("unk" when the call was given none).
getrandom(s, x) ==
  IF x <= 0 THEN Ret(s, Zero)
  ELSE IF s.rands = << >> THEN Ret(s, Unk)
  ELSE Ret([s EXCEPT !.rands = Tail(@)],
           Num(((Head(s.rands) % RAND_MAX) * x) \div (RAND_MAX + 1)))

\* percent(prob); false and true are carried as 0 and 1, which is what
\* DoPercent makes of them.
percent(s, prob) ==
  IF prob <= 0 THEN Ret(s, Zero)
  ELSE IF prob >= 100 THEN Ret(s, One)
  ELSE Let(getrandom(s, 100), LAMBDA r :
         IF r.unk THEN r ELSE Ret(r, Bool(r.ret[2] > 100 - prob)))

\* DoRandom(arg) and DoPercent(arg): the double is converted to the int
\* parameter by truncation; the conversion of a NaN is left as "unk".
DoRandom(s, arg) ==
  IF IsNum(arg) THEN getrandom(s, TruncInt(arg)) ELSE Ret(s, Unk)

DoPercent(s, arg) ==
  IF IsNum(arg) THEN percent(s, TruncInt(arg)) ELSE Ret(s, Unk)

\* si->fun(v) of Primary for a 1-argument function, rand and percent included.
CallFun1In(s, word, v) ==
  IF word = <<"r","a","n","d">> THEN DoRandom(s, v)
  ELSE IF word = <<"p","e","r","c","e","n","t">> THEN DoPercent(s, v)
  ELSE Ret(s, CallFun1(word, v))

RECURSIVE Primary(_, _), Term(_, _), TermLoop(_, _), AddSubtract(_, _),
          AddSubtractLoop(_, _), Comparison(_, _), ComparisonLoop(_, _),
          Expression(_, _), ExpressionLoop(_, _), CommaList(_, _),
          CommaListLoop(_, _)

\* case NAME of Primary, after the token following the name was read.
PrimaryName(s2, word) ==
  IF s2.type = "(" THEN
    IF LookupFun1(word) # 0 THEN
      AndThen(Expression(s2, TRUE), LAMBDA a :
      AndThen(CheckToken(a, ")"), LAMBDA c :
      AndThen(GetToken(c, TRUE), LAMBDA g :
        CallFun1In(g, word, a.ret))))
    ELSE IF LookupFun2(word) # 0 THEN
      AndThen(Expression(s2, TRUE), LAMBDA a1 :
      AndThen(CheckToken(a1, ","), LAMBDA c1 :
      AndThen(Expression(c1, TRUE), LAMBDA a2 :
      AndThen(CheckToken(IF word = <<"m","o","d">>
                     THEN NoteZero(a2, a2.ret, "mod") ELSE a2, ")"), LAMBDA c2 :
      AndThen(GetToken(c2, TRUE), LAMBDA g :
        CallFun2(g, word, a1.ret, a2.ret))))))
    ELSE IF LookupFun3(word) # 0 THEN
      AndThen(Expression(s2, TRUE), LAMBDA a1 :
      AndThen(CheckToken(a1, ","), LAMBDA c1 :
      AndThen(Expression(c1, TRUE), LAMBDA a2 :
      AndThen(CheckToken(a2, ","), LAMBDA c2 :
      AndThen(Expression(c2, TRUE), LAMBDA a3 :
      AndThen(CheckToken(a3, ")"), LAMBDA c3 :
      AndThen(GetToken(c3, TRUE), LAMBDA g :
        Ret(g, DoIf(a1.ret, a2.ret, a3.ret)))))))))
    ELSE runtime_error(s2, "Function '%s' not implemented", word)
  ELSE
    Let(LookupSymbol(s2, word), LAMBDA v :
    Let(IF IsNoMatch(v)
        THEN SaveSymbol(s2, word, v) ELSE s2, LAMBDA s3 :
      IF s3.type \in AssignTypes
      THEN AndThen(Expression(s3, TRUE), LAMBDA r :
             PrimaryAssign(s3.type, r, word, v))
      ELSE Ret(s3, v)))

Primary(s0, get) ==
  AndThen(IF get THEN GetToken(s0, FALSE) ELSE s0, LAMBDA s1 :
    CASE s1.type = "NUMBER" ->
           AndThen(GetToken(s1, TRUE), LAMBDA s2 : Ret(s2, s1.value))
      [] s1.type = "NAME" ->
           AndThen(GetToken(s1, TRUE), LAMBDA s2 : PrimaryName(s2, s1.word))
      [] s1.type = "-" ->
           AndThen(Primary(s1, TRUE), LAMBDA p : Ret(p, Neg(p.ret)))
      [] s1.type = "!" ->
           AndThen(Primary(s1, TRUE), LAMBDA p :
             Ret(p, IF IsUnk(p.ret) THEN Unk ELSE Bool(IsZero(p.ret))))
      [] s1.type = "(" ->
           AndThen(CommaList(s1, TRUE), LAMBDA v :
           AndThen(CheckToken(v, ")"), LAMBDA c :
           AndThen(GetToken(c, TRUE), LAMBDA g : Ret(g, v.ret))))
      [] s1.type = "END" ->
           runtime_error(s1, "Unexpected end of expression", << >>)
      [] OTHER -> runtime_error(s1, "Unexpected token: '%s'", s1.word))

\* One turn of the loop of Term: left op d, where d is the state after
\* Primary(true) returned the right operand.
\* The step of Term, had ^ been applied to its two neighbours before * and /.
TermStepPowerFirst(op, left, d) ==
  IF op \in {"*", "/"} /\ d.type = "^"
  THEN AndThen(Primary(d, TRUE), LAMBDA x :
         IF op = "/" /\ IsZero(Pow(d.ret, x.ret))
         THEN runtime_error(x, "Divide by zero", << >>)
         ELSE TermLoop(x, IF op = "*" THEN Mul(left, Pow(d.ret, x.ret))
                          ELSE Div(left, Pow(d.ret, x.ret))))
  ELSE CASE op = "^" -> TermLoop(d, Pow(left, d.ret))
         [] op = "*" -> TermLoop(d, Mul(left, d.ret))
         [] op = "/" ->
              (IF IsZero(d.ret)
               THEN runtime_error(NoteZero(d, d.ret, "/"), "Divide by zero", << >>)
               ELSE TermLoop(d, Div(left, d.ret)))

TermStep(op, left, d) ==
  CASE op = "^" -> TermLoop(d, Pow(left, d.ret))
    [] op = "*" -> TermLoop(d, Mul(left, d.ret))
    [] op = "/" ->
         (IF IsZero(d.ret)
          THEN runtime_error(NoteZero(d, d.ret, "/"), "Divide by zero", << >>)
          ELSE TermLoop(d, Div(left, d.ret)))

Term(s0, get) ==
  AndThen(Primary(s0, get), LAMBDA p : TermLoop(p, p.ret))

TermLoop(s, left) ==
  IF s.type \in {"^", "*", "/"}
  THEN AndThen(Primary(s, TRUE), LAMBDA d : TermStep(s.type, left, d))
  ELSE Ret(s, left)

AddSubtract(s0, get) ==
  AndThen(Term(s0, get), LAMBDA t : AddSubtractLoop(t, t.ret))

\* The loop of AddSubtract taking its right operand from Primary, not Term.
AddSubtractLoopNoTerm(s, left) ==
  IF s.type \in {"+", "-"}
  THEN AndThen(Primary(s, TRUE), LAMBDA t :
         AddSubtractLoop(t, IF s.type = "+" THEN Add(left, t.ret)
                            ELSE Sub(left, t.ret)))
  ELSE Ret(s, left)

AddSubtractLoop(s, left) ==
  IF s.type \in {"+", "-"}
  THEN AndThen(Term(s, TRUE), LAMBDA t :
         AddSubtractLoop(t, IF s.type = "+" THEN Add(left, t.ret)
                            ELSE Sub(left, t.ret)))
  ELSE Ret(s, left)

Comparison(s0, get) ==
  AndThen(AddSubtract(s0, get), LAMBDA a : ComparisonLoop(a, a.ret))

ComparisonLoop(s, left) ==
  IF s.type \in {"<", ">", "<=", ">=", "==", "!="}
  THEN AndThen(AddSubtract(s, TRUE), LAMBDA a :
         ComparisonLoop(a, Cmp(s.type, left, a.ret)))
  ELSE Ret(s, left)

\* (left != 0.0) && (d != 0.0), and the same with ||, converted to double.
LogicalAnd(left, d) ==
  IF IsUnk(left) \/ IsUnk(d) THEN Unk ELSE Bool(Truth(left) /\ Truth(d))
LogicalOr(left, d) ==
  IF IsUnk(left) \/ IsUnk(d) THEN Unk ELSE Bool(Truth(left) \/ Truth(d))

Expression(s0, get) ==
  AndThen(Comparison(s0, get), LAMBDA c : ExpressionLoop(c, c.ret))

\* The loop of Expression, had && and || skipped the effects of a right
\* operand that cannot change the result.
ExpressionLoopShortCircuit(s, left) ==
  IF s.type \in {"&&", "||"}
  THEN AndThen(Comparison(s, TRUE), LAMBDA d :
         ExpressionLoop(
           IF Truth(left) = (s.type = "||")
           THEN [d EXCEPT !.vars_lhs = s.vars_lhs, !.vars_rhs = s.vars_rhs,
                          !.num_vars = s.num_vars, !.saves = s.saves]
           ELSE d,
           IF s.type = "&&" THEN LogicalAnd(left, d.ret)
           ELSE LogicalOr(left, d.ret)))
  ELSE Ret(s, left)

ExpressionLoop(s, left) ==
  IF s.type \in {"&&", "||"}
  THEN AndThen(Comparison(s, TRUE), LAMBDA d :
         ExpressionLoop(d, IF s.type = "&&" THEN LogicalAnd(left, d.ret)
                           ELSE LogicalOr(left, d.ret)))
  ELSE Ret(s, left)

CommaList(s0, get) ==
  AndThen(Expression(IF s0.someNumber = 0 THEN initRandom(s0) ELSE s0, get),
      LAMBDA e : CommaListLoop(e, e.ret))

CommaListLoop(s, left) ==
  IF s.type = "," THEN AndThen(Expression(s, TRUE), LAMBDA e : CommaListLoop(e, e.ret))
  ELSE Ret(s, left)

(***************************************************************************)
(* Evaluate: the whole call, from the cleared error buffer to the return   *)
(* of the value or, after a longjmp, of sqrt(-1.0).                        *)
(***************************************************************************)
\* Evaluate entered without ParserErrBuf[0] = '\0': the buffer keeps what an
\* earlier call left in it.
EvaluateEnterStale(s0, now) ==
  [s0 EXCEPT !.jumped = FALSE, !.now = now,
             !.unk = FALSE, !.zdiv = << >>, !.saves = << >>,
             !.tokens = << >>, !.errAt = << >>, !.seedings = 0]

\* ParserErrBuf[0] = '\0', and the ghosts of the call reset.
EvaluateEnter(s0, now) ==
  [s0 EXCEPT !.err = << >>, !.jumped = FALSE, !.now = now,
             !.unk = FALSE, !.zdiv = << >>, !.saves = << >>,
             !.tokens = << >>, !.errAt = << >>, !.seedings = 0]

\* Evaluate without the two SaveSymbol calls.
EvaluateSeedNothing(s) == s

\* SaveSymbol("pi", M_PI); SaveSymbol("e", M_E);
EvaluateSeed(s) == SaveSymbol(SaveSymbol(s, NAME_PI, M_PI), NAME_E, M_E)

\* pWord_ = expression; type_ = NONE;
EvaluateStart(s, txt) == [s EXCEPT !.expr = txt, !.pWord = 1, !.type = "NONE"]

\* Evaluate returning without the test of type_ against END.
EvaluateLeaveAnyToken(d) ==
  IF d.jumped THEN [d EXCEPT !.ret = NaN] ELSE d

\* Evaluate undoing, after the longjmp, the assignments the call had made.
EvaluateLeaveRollback(d) ==
  IF d.jumped
  THEN [d EXCEPT !.ret = NaN,
                 !.vars_rhs = [i \in DOMAIN @ |->
                                 IF \E k \in 3..Len(d.saves) :
                                      d.saves[k][1] = d.vars_lhs[i]
                                 THEN NaN ELSE @[i]]]
  ELSE IF d.type # "END"
  THEN [runtime_error(d, "Unexpected text at end of expression: '%s'",
                      SubSeq(d.expr, d.pWordStart, Len(d.expr)))
          EXCEPT !.ret = NaN]
  ELSE d

\* if (type_ != END) runtime_error(...), and the return of either branch of
\* the setjmp.
EvaluateLeave(d) ==
  IF d.jumped THEN [d EXCEPT !.ret = NaN]
  ELSE IF d.type # "END"
  THEN [runtime_error(d, "Unexpected text at end of expression: '%s'",
                      SubSeq(d.expr, d.pWordStart, Len(d.expr)))
          EXCEPT !.ret = NaN]
  ELSE d

Evaluate(s0, txt, now) ==
  EvaluateLeave(CommaList(EvaluateStart(EvaluateSeed(EvaluateEnter(s0, now)), txt),
                          TRUE))

(***************************************************************************)
(* The program state: the statics of parser.c and parser.h.                *)
(***************************************************************************)
VARIABLES
  vars_lhs, vars_rhs, num_vars,   \* the symbol table
  ParserErrBuf,                   \* the error message, << >> when empty
  expr, pWord_, pWordStart_,      \* the text being scanned and the two cursors
  type_, word_, value_,           \* the current token
  someNumber, rng,                \* the "seeded" flag and the seed last given to srand
  clock,                          \* the seconds time() reads
  oob,                            \* a write landed outside the symbol arrays or word_
  crashed,                        \* the last call did not return to its caller
  call,                           \* the last call made: its name and arguments
  result,                         \* what the last Evaluate returned
  jumped, zdiv, saves,            \* of the last call: see the record above
  tokens, errAt, seedings,        \* of the last call: see the record above
  stored,                         \* name -> the value last passed to SaveSymbol
  was,                            \* what held just before the last call
  input                           \* the terms the text of the last call was built from

vars == <<vars_lhs, vars_rhs, num_vars, ParserErrBuf, expr, pWord_, pWordStart_,
          type_, word_, value_, someNumber, rng, clock, oob, crashed, call,
          result, jumped, zdiv, saves, tokens, errAt, seedings, stored, was, input>>

\* What the clock reads.
Clock0 == 7

\* The statics as the record the operators work on.
Cur ==
  [expr |-> expr, pWord |-> pWord_, pWordStart |-> pWordStart_, type |-> type_,
   word |-> word_, value |-> value_, vars_lhs |-> vars_lhs,
   vars_rhs |-> vars_rhs, num_vars |-> num_vars, err |-> ParserErrBuf,
   jumped |-> FALSE, ret |-> NaN, now |-> [tv_sec |-> clock, tv_usec |-> 0],
   oob |-> oob, wordOob |-> FALSE, crashed |-> FALSE, unk |-> FALSE, zdiv |-> << >>, saves |-> << >>,
   tokens |-> << >>, errAt |-> << >>, seedings |-> 0, rands |-> << >>,
   someNumber |-> someNumber, rng |-> rng]

\* GetParserErr()
GetParserErr == ParserErrBuf

\* The map name -> value after the SaveSymbol calls of log, made in order.
RECURSIVE Replay(_, _)
Replay(m, log) ==
  IF log = << >> THEN m
  ELSE Replay([x \in DOMAIN m \cup {log[1][1]} |->
                 IF x = log[1][1] THEN log[1][2] ELSE m[x]],
              Tail(log))

\* What a build may leave after a write past the end of the arrays: the write
\* lands in unused memory, or on the neighbouring vars_rhs[0], or on num_vars.
OobOutcomes(s) ==
  IF ~s.oob THEN {s}
  ELSE {s, [s EXCEPT !.vars_rhs[1] = Unk], [s EXCEPT !.num_vars = 1]}

\* What a build may do after a write past the end of word_: the write lands
\* in unused memory and the call goes on, or it lands on the neighbouring
\* ParserErrBuf, which then holds characters of the token, or the process
\* takes a fault and the call never returns.
WordOutcomes(s) ==
  IF ~s.wordOob THEN {s}
  ELSE {s, [s EXCEPT !.err = <<"", "%s", s.word>>], [s EXCEPT !.crashed = TRUE]}

\* The statics after a call that left them as s; c names the call.
Install(s, c) ==
  /\ vars_lhs' = s.vars_lhs
  /\ vars_rhs' = s.vars_rhs
  /\ num_vars' = s.num_vars
  /\ ParserErrBuf' = s.err
  /\ expr' = s.expr
  /\ pWord_' = s.pWord
  /\ pWordStart_' = s.pWordStart
  /\ type_' = s.type
  /\ word_' = s.word
  /\ value_' = s.value
  /\ someNumber' = s.someNumber
  /\ rng' = s.rng
  /\ oob' = (s.oob \/ s.wordOob)
  /\ crashed' = s.crashed
  /\ call' = c
  /\ saves' = s.saves
  /\ tokens' = s.tokens
  /\ errAt' = s.errAt
  /\ seedings' = s.seedings
  /\ stored' = Replay(stored, s.saves)
  /\ was' = [err |-> ParserErrBuf # << >>,
             called |-> was.called \/ call[1] = "Evaluate"]
  /\ UNCHANGED clock

Init ==
  /\ vars_lhs = << >>
  /\ vars_rhs = << >>
  /\ num_vars = 0
  /\ ParserErrBuf = << >>
  /\ expr = << >>
  /\ pWord_ = 0
  /\ pWordStart_ = 0
  /\ type_ = "NONE"
  /\ word_ = << >>
  /\ value_ = Zero
  /\ someNumber = 0
  /\ rng = 1
  /\ clock = Clock0
  /\ oob = FALSE
  /\ crashed = FALSE
  /\ call = <<"none">>
  /\ result = NaN
  /\ jumped = FALSE
  /\ zdiv = << >>
  /\ saves = << >>
  /\ tokens = << >>
  /\ errAt = << >>
  /\ seedings = 0
  /\ stored = << >>
  /\ was = [err |-> FALSE, called |-> FALSE]
  /\ input = << >>

\* One call Evaluate(txt) by the host program; the calls of rand() in it
\* return the values of rands in order.
EvaluateCallWith(txt, rands) ==
  /\ ~oob
  /\ \E s \in {Evaluate([Cur EXCEPT !.rands = rands], txt,
                          [tv_sec |-> clock, tv_usec |-> 0])} :
        /\ ~s.unk
        /\ \E o \in OobOutcomes(s) :
             \E w \in WordOutcomes(o) : Install(w, <<"Evaluate", txt>>)
        /\ result' = s.ret
        /\ jumped' = s.jumped
        /\ zdiv' = s.zdiv

\* One call Evaluate(txt) whose rand() calls are not followed.
EvaluateCall(txt) == EvaluateCallWith(txt, << >>)

\* One call SaveSymbol(lhs, rhs) by the host program.
SaveSymbolCall(lhs, rhs) ==
  /\ ~oob
  /\ \E s \in {SaveSymbol([Cur EXCEPT !.saves = << >>], lhs, rhs)} :
        /\ \E o \in OobOutcomes(s) : Install(o, <<"SaveSymbol", lhs, rhs>>)
        /\ UNCHANGED <<result, jumped, zdiv>>

(***************************************************************************)
(* Spec: calls that succeed and calls that abort, in any order.            *)
(***************************************************************************)
Exprs ==
  {
    <<"2"," ","+"," ","3"," ","*"," ","6">>,                 \* 2 + 3 * 6
    <<"(","2"," ","+"," ","3",")"," ","*"," ","6">>,         \* (2 + 3) * 6
    <<"2"," ","+"," ","3"," ",">"," ","6"," ","+"," ","8">>, \* 2 + 3 > 6 + 8
    <<"x","+","1">>,                                         \* x+1
    <<"b">>,                                                 \* b
    <<"p","i">>,                                             \* pi
    <<"b","=","0">>,                                         \* b=0
    <<"1","/","0">>,                                         \* 1/0
    <<"2","/","b">>,                                         \* 2/b
    <<"0","/","0">>,                                         \* 0/0
    <<"m","o","d","(","7",",","0",")">>,                     \* mod(7,0)
    <<"m","o","d","(","7",",","b",")">>,                     \* mod(7,b)
    <<"m","o","d","(","1",",","0",")","$">>,                 \* mod(1,0)$
    <<"m","o","d","(","1",",","0"," ","1",")">>,             \* mod(1,0 1)
    <<"1","/","0","$">>,                                     \* 1/0$
    <<"m","o","d","(","7",",","2",")">>,                     \* mod(7,2)
    <<"b","/","=","0">>,                                     \* b/=0
    <<"b","=","0",","," ","b","/","=","b">>,                 \* b=0, b/=b
    <<"6","/","2">>,                                         \* 6/2
    << >>,                                                   \* (the empty text)
    <<"1"," ","2">>,                                         \* 1 2
    <<"1",")">>,                                             \* 1)
    <<"(","1">>,                                             \* (1
    <<"1"," ","+"," ","3"," ","+"," ",")">>,                 \* 1 + 3 + )
    <<"m","i","n","(","1",")">>,                             \* min(1)
    <<"i","f","(","1",",","2",")">>,                         \* if(1,2)
    <<"f","o","o","(","1",")">>,                             \* foo(1)
    <<"s","q","r","t","(","-","1",")">>,                     \* sqrt(-1)
    <<"i","f","(","1","<","2",",","2","2",",","3","3",")">>, \* if(1<2,22,33)
    <<"1",".","2",".","3">>,                                 \* 1.2.3
    <<"2"," ","$">>,                                         \* 2 $
    <<"2","*","-","3">>                                      \* 2*-3
  }

ApiNames == {<<"x">>}
ApiValues == {Num(5)}

DoEvaluate == \E txt \in Exprs : EvaluateCall(txt) /\ input' = << >>
DoSaveSymbol ==
  \E lhs \in ApiNames, rhs \in ApiValues :
    SaveSymbolCall(lhs, rhs) /\ input' = << >>

Next == DoEvaluate \/ DoSaveSymbol

Spec == Init /\ [][Next]_vars

(***************************************************************************)
(* Properties of Spec.                                                     *)
(***************************************************************************)
\* C1 -- after every Evaluate call GetParserErr() is non-empty exactly when
\* that call aborted with an error signal, and an aborted call returned NaN;
\* so a message left by an earlier failed call is gone after a later
\* successful one.
C1_MessageIffAborted ==
  call[1] = "Evaluate" =>
    /\ (GetParserErr # << >>) <=> jumped
    /\ jumped => result = NaN

\* A successful call made while the buffer held the message of a failed one.
C1_SuccessAfterFailure ==
  /\ call[1] = "Evaluate"
  /\ was.err
  /\ ~jumped
  /\ GetParserErr = << >>
  /\ result # NaN

\* The format of the message in the error buffer ("" when it is empty).
ErrFmt == IF GetParserErr = << >> THEN "" ELSE GetParserErr[2]

\* C4 as stated -- whenever the divisor of /, the right-hand side of /= or
\* the second argument of mod evaluates to 0, the call aborts with a
\* divide-by-zero message and returns NaN, and nothing is stored after the
\* zero divisor was met.
C4_ZeroDivisorMessage ==
  (call[1] = "Evaluate" /\ zdiv # << >>) =>
    /\ jumped
    /\ result = NaN
    /\ Len(saves) = zdiv[2]
    /\ ErrFmt \in {"Divide by zero", "Divide by zero in mod"}

\* C4 -- whenever the divisor of /, the right-hand side of /= or the second
\* argument of mod evaluates to 0, the call aborts and returns NaN and no
\* SaveSymbol follows the zero divisor.  For / and /= the message is the
\* divide-by-zero message; for mod it is too, unless the ')' of the call is
\* missing or the token after it is rejected by the lexer, which is then the
\* error reported.
C4_ZeroDivisorAborts ==
  (call[1] = "Evaluate" /\ zdiv # << >>) =>
    /\ jumped
    /\ result = NaN
    /\ Len(saves) = zdiv[2]
    /\ zdiv[1] \in {"/", "/="} => ErrFmt = "Divide by zero"
    /\ zdiv[1] = "mod" =>
         \/ ErrFmt = "Divide by zero in mod"
         \/ GetParserErr = <<"Error! ", "expected '%c'", <<")">>>>
         \/ ErrFmt \in {"Unexpected character '%c'",
                        "Unexpected character 0x%02x",
                        "Bad numeric literal: %s"}

\* b=0, b/=b: the 0 stored by the first element is still there after the
\* second one aborted.
C4_DivideAssignByZero ==
  /\ call = <<"Evaluate", <<"b","=","0",","," ","b","/","=","b">>>>
  /\ zdiv = <<"/=", 3>>
  /\ jumped
  /\ result = NaN
  /\ ErrFmt = "Divide by zero"
  /\ LookupSymbol(Cur, <<"b">>) = Zero

\* The texts the idempotence property is about: no assignment token (here:
\* no '=' at all), no call of rand, percent or roll, no time or timems.
HasWord(txt, w) ==
  \E i \in 1..Len(txt) :
    i + Len(w) - 1 <= Len(txt) /\ SubSeq(txt, i, i + Len(w) - 1) = w
PureText(txt) ==
  /\ ~HasWord(txt, <<"=">>)
  /\ ~HasWord(txt, <<"r","a","n","d">>)
  /\ ~HasWord(txt, <<"p","e","r","c","e","n","t">>)
  /\ ~HasWord(txt, <<"r","o","l","l">>)
  /\ ~HasWord(txt, <<"t","i","m","e">>)

\* The statics with the scan cursor, the current token and the error buffer
\* as they are at program start, and the symbol table as it is now.
Fresh ==
  [Cur EXCEPT !.expr = << >>, !.pWord = 0, !.pWordStart = 0, !.type = "NONE",
              !.word = << >>, !.value = Zero, !.err = << >>]

\* C10 -- the result and the message of an Evaluate call on a text without
\* assignment, rand, percent, roll, time or timems are those the same text
\* gives when evaluated again on the table it left (which such a call does
\* not change) from the scan cursor, token and error buffer of program
\* start: whatever the earlier calls left behind in them, the outcome is the
\* same.
C10_SameOutcomeAgain ==
  (call[1] = "Evaluate" /\ PureText(call[2])) =>
    Let(Evaluate(Fresh, call[2], [tv_sec |-> clock, tv_usec |-> 0]), LAMBDA s :
      s.ret = result /\ s.err = GetParserErr)

\* x+1 evaluated to 6 right after a call that failed and left its message,
\* cursor and token behind.
C10_AfterFailedCall ==
  /\ call = <<"Evaluate", <<"x","+","1">>>>
  /\ was.err
  /\ type_ = "END"
  /\ result = Num(6)
  /\ GetParserErr = << >>

\* C6 -- an Evaluate call on a text without assignment token (here: without
\* '=') calls SaveSymbol for the seeds of pi and e and for nothing else, so
\* every other symbol still reads the value last stored under it; and x+1 is
\* the stored value of x plus 1.
C6_NoAssignmentNoStore ==
  (call[1] = "Evaluate" /\ ~HasWord(call[2], <<"=">>)) =>
    /\ saves = << <<NAME_PI, M_PI>>, <<NAME_E, M_E>> >>
    /\ \A n \in DOMAIN stored : LookupSymbol(Cur, n) = stored[n]
    /\ call[2] = <<"x","+","1">> =>
         result = Add(LookupSymbol(Cur, <<"x">>), One)

\* SaveSymbol(x, 5), then x+1 gave 6 and x is still 5.
C6_PreloadedRead ==
  /\ call = <<"Evaluate", <<"x","+","1">>>>
  /\ result = Num(6)
  /\ LookupSymbol(Cur, <<"x">>) = Num(5)
  /\ stored[<<"x">>] = Num(5)

\* The symbol table has an entry for the name n.
InTable(n) == \E i \in 1..num_vars : vars_lhs[i] = n

\* C11 -- after an Evaluate call that read the name b (not followed by '(')
\* the symbol table has an entry for b, whether or not an expression ever
\* assigned to it.
C11_FirstUseCreates ==
  (call = <<"Evaluate", <<"b">>>> /\ ~jumped) => InTable(<<"b">>)

\* C19 as stated -- the generator is seeded at most once per process:
\* initRandom runs on the first entry to CommaList only, so a call after the
\* first Evaluate call seeds nothing, and the first call seeds once however
\* many parenthesised sub-lists it has.
C19_SeededOnce ==
  call[1] = "Evaluate" => seedings <= (IF was.called THEN 0 ELSE 1)

(***************************************************************************)
(* SpecPrec: one call on a text built from three literals and two binary   *)
(* operators, flat or with one pair of parentheses.                        *)
(***************************************************************************)
BinOps == {"^", "*", "/", "+", "-", "<", ">", "<=", ">=", "==", "!=",
           "&&", "||", ","}
Forms == {"flat", "left", "right"}

DigitChar(k) ==
  CASE k = 0 -> "0" [] k = 1 -> "1" [] k = 2 -> "2" [] k = 3 -> "3"
    [] k = 4 -> "4" [] k = 5 -> "5" [] k = 6 -> "6" [] k = 7 -> "7"
    [] k = 8 -> "8" [] k = 9 -> "9"

\* The characters of an operator.
OpText(op) ==
  CASE op = "<=" -> <<"<", "=">>
    [] op = ">=" -> <<">", "=">>
    [] op = "==" -> <<"=", "=">>
    [] op = "!=" -> <<"!", "=">>
    [] op = "&&" -> <<"&", "&">>
    [] op = "||" -> <<"|", "|">>
    [] OTHER -> <<op>>

\* a op1 b op2 c, (a op1 b) op2 c, a op1 (b op2 c)
PrecText(form, a, op1, b, op2, c) ==
  CASE form = "flat" ->
         <<DigitChar(a), " ">> \o OpText(op1) \o <<" ", DigitChar(b), " ">>
           \o OpText(op2) \o <<" ", DigitChar(c)>>
    [] form = "left" ->
         <<"(", DigitChar(a), " ">> \o OpText(op1) \o <<" ", DigitChar(b), ")", " ">>
           \o OpText(op2) \o <<" ", DigitChar(c)>>
    [] form = "right" ->
         <<DigitChar(a), " ">> \o OpText(op1) \o <<" ", "(", DigitChar(b), " ">>
           \o OpText(op2) \o <<" ", DigitChar(c), ")">>

PrecEvaluate ==
  /\ call = <<"none">>
  /\ \E form \in Forms, a \in 0..MaxLit, b \in 0..MaxLit, c \in 0..MaxLit,
        op1 \in BinOps, op2 \in BinOps :
       /\ EvaluateCall(PrecText(form, a, op1, b, op2, c))
       /\ input' = <<form, a, op1, b, op2, c>>

PrecNext == PrecEvaluate

SpecPrec == Init /\ [][PrecNext]_vars

(***************************************************************************)
(* The reference evaluator: a table of binding strengths and the meaning   *)
(* of each operator on two values; a division by zero aborts the whole.    *)
(***************************************************************************)
RefAbort == <<"abort", 0, 1>>

RefLevel(op) ==
  CASE op \in {"^", "*", "/"} -> 5
    [] op \in {"+", "-"} -> 4
    [] op \in {"<", ">", "<=", ">=", "==", "!="} -> 3
    [] op \in {"&&", "||"} -> 2
    [] op = "," -> 1

RefApply(op, x, y) ==
  IF x = RefAbort \/ y = RefAbort THEN RefAbort
  ELSE CASE op = "^" -> Pow(x, y)
         [] op = "*" -> Mul(x, y)
         [] op = "/" -> (IF y = Zero THEN RefAbort ELSE Div(x, y))
         [] op = "+" -> Add(x, y)
         [] op = "-" -> Sub(x, y)
         [] op \in {"<", ">", "<=", ">=", "==", "!="} -> Cmp(op, x, y)
         [] op = "&&" -> (IF x # Zero /\ y # Zero THEN One ELSE Zero)
         [] op = "||" -> (IF x # Zero \/ y # Zero THEN One ELSE Zero)
         [] op = "," -> y

RefValue(form, a, op1, b, op2, c) ==
  IF form = "right" \/ (form = "flat" /\ RefLevel(op2) > RefLevel(op1))
  THEN RefApply(op1, Num(a), RefApply(op2, Num(b), Num(c)))
  ELSE RefApply(op2, RefApply(op1, Num(a), Num(b)), Num(c))

\* C2 -- for every text built from bounded integer literals, parentheses and
\* binary operators, Evaluate returns what the reference evaluator gives:
\* ^ * / bind tighter than + -, these tighter than the comparisons, these
\* tighter than && and ||, these tighter than the comma; each level groups
\* from the left, parentheses override, comparisons and logical operators
\* give 1 or 0, a comma list gives its last operand.
C2_AgreesWithReference ==
  (call[1] = "Evaluate" /\ input # << >>) =>
    \E v \in {RefValue(input[1], input[2], input[3], input[4], input[5], input[6])} :
      IF v = RefAbort THEN jumped /\ result = NaN
      ELSE ~jumped /\ result = v

\* 2 + 3 * 3 was evaluated to 11 and 3 - 2 - 1 to 0.
C2_MulBeforeAdd ==
  /\ call = <<"Evaluate", <<"2", " ", "+", " ", "3", " ", "*", " ", "3">> >>
  /\ input = <<"flat", 2, "+", 3, "*", 3>>
  /\ result = Num(11)

(***************************************************************************)
(* SpecSyntax: one call on a text of tokens separated by single spaces:    *)
(* a well-formed text, or one with a token deleted, inserted or replaced.  *)
(***************************************************************************)
SynTokens == {"0", "1", "x", "+", "/", "-", "!", "=", "&&", ",", "(", ")",
              "abs", "min", "if", "foo", "$"}

SynBases ==
  { <<"1">>,
    <<"1", "+", "x">>,
    <<"x", "/", "1">>,
    <<"(", "1", "+", "x", ")", "/", "1">>,
    <<"-", "!", "1">>,
    <<"x", "=", "1", ",", "x">>,
    <<"abs", "(", "1", ")">>,
    <<"min", "(", "1", ",", "x", ")">>,
    <<"if", "(", "1", ",", "x", ",", "1", ")">>,
    <<"foo", "(", "1", ")">> }

\* The texts one token away from b.
Edits(b) ==
  {SubSeq(b, 1, i - 1) \o SubSeq(b, i + 1, Len(b)) : i \in 1..Len(b)}
    \cup {SubSeq(b, 1, i) \o <<t>> \o SubSeq(b, i + 1, Len(b)) :
            i \in 0..Len(b), t \in SynTokens}
    \cup {[b EXCEPT ![i] = t] : i \in 1..Len(b), t \in SynTokens}

SynInputs == SynBases \cup UNION {Edits(b) : b \in SynBases}

\* The characters of a token.
TokText(t) ==
  CASE t = "&&" -> <<"&", "&">>
    [] t = "abs" -> <<"a", "b", "s">>
    [] t = "min" -> <<"m", "i", "n">>
    [] t = "if" -> <<"i", "f">>
    [] t = "foo" -> <<"f", "o", "o">>
    [] OTHER -> <<t>>

RECURSIVE SynText(_)
SynText(toks) ==
  IF toks = << >> THEN << >>
  ELSE IF Len(toks) = 1 THEN TokText(toks[1])
  ELSE TokText(toks[1]) \o <<" ">> \o SynText(Tail(toks))

SynEvaluate ==
  /\ call = <<"none">>
  /\ \E toks \in SynInputs : EvaluateCall(SynText(toks)) /\ input' = toks

SynNext == SynEvaluate

SpecSyntax == Init /\ [][SynNext]_vars

(***************************************************************************)
(* The grammar, decided bottom-up: the innermost parenthesised group is    *)
(* checked as a flat run of operands and operators and replaced by the one *)
(* operand "V", until no parenthesis is left.                              *)
(***************************************************************************)
SynNumbers == {"0", "1"}
SynNames == {"x", "abs", "min", "if", "foo"}
SynPrefix == {"-", "!"}
SynBinary == {"+", "/", "-", "&&"}

\* The number of arguments the tables give a name; 0 when it is in none.
SynArity(t) ==
  CASE t = "abs" -> 1 [] t = "min" -> 2 [] t = "if" -> 3 [] OTHER -> 0

\* The commas of a flat run that is operands joined by operators or commas,
\* each operand after any number of - ! and name = prefixes; -1 otherwise.
RECURSIVE FlatCommas(_, _, _, _)
FlatCommas(toks, i, operand, commas) ==
  IF i > Len(toks) THEN (IF operand THEN -1 ELSE commas)
  ELSE IF operand THEN
    IF toks[i] \in SynPrefix THEN FlatCommas(toks, i + 1, TRUE, commas)
    ELSE IF toks[i] \in SynNames /\ i < Len(toks) /\ toks[i + 1] = "="
      THEN FlatCommas(toks, i + 2, TRUE, commas)
    ELSE IF toks[i] \in SynNumbers \cup SynNames \cup {"V"}
      THEN FlatCommas(toks, i + 1, FALSE, commas)
    ELSE -1
  ELSE IF toks[i] \in SynBinary THEN FlatCommas(toks, i + 1, TRUE, commas)
  ELSE IF toks[i] = "," THEN FlatCommas(toks, i + 1, TRUE, commas + 1)
  ELSE -1

Closers(toks) == {j \in 1..Len(toks) : toks[j] = ")"}
Openers(toks, j) == {i \in 1..(j - 1) : toks[i] = "("}
MinOf(S) == CHOOSE m \in S : \A n \in S : m <= n
MaxOf(S) == CHOOSE m \in S : \A n \in S : m >= n

\* toks with the group from "(" at i to ")" at j checked and replaced by
\* "V"; <<"$">> when the group is ill-formed.
ReduceGroup(toks, i, j) ==
  IF i > 1 /\ toks[i - 1] \in SynNames THEN
    IF SynArity(toks[i - 1]) > 0
       /\ FlatCommas(SubSeq(toks, i + 1, j - 1), 1, TRUE, 0) = SynArity(toks[i - 1]) - 1
    THEN SubSeq(toks, 1, i - 2) \o <<"V">> \o SubSeq(toks, j + 1, Len(toks))
    ELSE <<"$">>
  ELSE IF FlatCommas(SubSeq(toks, i + 1, j - 1), 1, TRUE, 0) >= 0
    THEN SubSeq(toks, 1, i - 1) \o <<"V">> \o SubSeq(toks, j + 1, Len(toks))
  ELSE <<"$">>

RECURSIVE IsCommaList(_)
IsCommaList(toks) ==
  IF Closers(toks) = {} THEN FlatCommas(toks, 1, TRUE, 0) >= 0
  ELSE IF Openers(toks, MinOf(Closers(toks))) = {} THEN FALSE
  ELSE IsCommaList(ReduceGroup(toks, MaxOf(Openers(toks, MinOf(Closers(toks)))),
                               MinOf(Closers(toks))))

\* C3 as claimed -- Evaluate succeeds exactly when the whole input is one
\* complete comma list of the grammar, and then the current token is End.
C3_SucceedsIffCommaList ==
  call[1] = "Evaluate" =>
    /\ (~jumped) <=> IsCommaList(input)
    /\ ~jumped => type_ = "END"

\* C3 -- Evaluate succeeds exactly when the whole input is one complete comma
\* list of the grammar and no divisor in it evaluates to zero: a token or End
\* where an operand is required, a missing ) or , in a group or call, too few
\* arguments, a name before ( that is in no function table, or a token left
\* over after the list makes the call abort with a message; on every
\* successful return the current token is End.
C3_SucceedsIffCommaListNoZeroDivisor ==
  call[1] = "Evaluate" =>
    /\ (~jumped) <=> (IsCommaList(input) /\ zdiv = << >>)
    /\ ~jumped => type_ = "END"
    /\ jumped => GetParserErr # << >>

\* The text "1 )" was refused for the token left over after the list.
C3_LeftOverToken ==
  /\ call[1] = "Evaluate"
  /\ input = <<"1", ")">>
  /\ jumped
  /\ GetParserErr = <<"Error! ", "Unexpected text at end of expression: '%s'", <<")">> >>

(***************************************************************************)
(* SpecSym: sessions of assignments `name op rhs`, alone or followed by a  *)
(* reference to the name, of bare references, and of SaveSymbol calls, on  *)
(* a variable and on pi.  input keeps, with the terms of the text, the     *)
(* value the name had before the call.  Calls that would store a number    *)
(* whose numerator is beyond SymMax are not made.                          *)
(***************************************************************************)
SymMax == 2

SymNames == {<<"a">>, NAME_PI}
AssignOps == {"=", "+=", "-=", "*=", "/="}
SymRhs == {<<"2">>, <<"0">>}
SymForms == {"alone", "then read"}

\* The characters of an assignment operator.
AssignText(op) ==
  CASE op = "=" -> <<"=">>
    [] op = "+=" -> <<"+", "=">>
    [] op = "-=" -> <<"-", "=">>
    [] op = "*=" -> <<"*", "=">>
    [] op = "/=" -> <<"/", "=">>

\* name op rhs, or name op rhs, name
SymText(n, op, rhs, form) ==
  n \o AssignText(op) \o rhs \o
  (IF form = "then read" THEN <<",", " ">> \o n ELSE << >>)

\* No stored number has a numerator beyond SymMax.
WithinSymMax(rhs) ==
  \A i \in DOMAIN rhs : IsNum(rhs[i]) => AbsInt(rhs[i][2]) <= SymMax

SymAssign ==
  \E n \in SymNames, op \in AssignOps, rhs \in SymRhs, form \in SymForms :
    /\ EvaluateCall(SymText(n, op, rhs, form))
    /\ WithinSymMax(vars_rhs')
    /\ input' = <<"assign", n, op, rhs, form, LookupSymbol(Cur, n)>>

\* The last call was a successful assignment to n.
JustAssigned(n) ==
  input # << >> /\ input[1] = "assign" /\ input[2] = n /\ ~jumped

SymRead ==
  \E n \in SymNames :
    /\ EvaluateCall(n)
    /\ input' = <<"read", n, LookupSymbol(Cur, n), JustAssigned(n)>>

SymSave ==
  \E n \in SymNames :
    /\ SaveSymbolCall(n, One)
    /\ input' = <<"save", n>>

SymNext == SymAssign \/ SymRead \/ SymSave

SpecSym == Init /\ [][SymNext]_vars

(***************************************************************************)
(* Properties of SpecSym.                                                  *)
(***************************************************************************)
\* The value of a right-hand side of SymRhs.
SymRhsValue(rhs) == IF rhs = <<"2">> THEN Num(2) ELSE Zero

\* r, v+r, v-r, v*r, v/r
Assigned(op, v, r) ==
  CASE op = "=" -> r
    [] op = "+=" -> Add(v, r)
    [] op = "-=" -> Sub(v, r)
    [] op = "*=" -> Mul(v, r)
    [] op = "/=" -> Div(v, r)

\* The last call was name op rhs (with or without a reference after it), its
\* divisor not 0: it succeeded, its result and the last value stored are
\* v op r, stored under name, and name now reads v op r.
AssignmentStores ==
  (input[1] = "assign" /\ ~(input[3] = "/=" /\ input[4] = <<"0">>)) =>
    Let(Assigned(input[3], input[6], SymRhsValue(input[4])), LAMBDA w :
      /\ ~jumped
      /\ result = w
      /\ saves[Len(saves)] = <<input[2], w>>
      /\ LookupSymbol(Cur, input[2]) = w)

\* The last call was a bare reference to a name in Names, made right after
\* a call that assigned to it: it read the value the name had.
ReadsAssigned(Names) ==
  (input[1] = "read" /\ input[4] /\ input[2] \in Names) => result = input[3]

\* C5 as stated -- an assignment name op expr stores r, v+r, v-r, v*r, v/r
\* under the name and returns it, and the new value is what later references
\* read, in the same comma list and in the next Evaluate call, for every
\* name.
C5_AssignedValueReadLater ==
  input # << >> => (AssignmentStores /\ ReadsAssigned(SymNames))

\* C5 -- an assignment name op expr stores r, v+r, v-r, v*r, v/r under the
\* name and returns it, and the new value is what later references read in
\* the same comma list; for a name other than pi and e it is also what the
\* next Evaluate call reads.
C5_AssignedValueReadLaterButSeeds ==
  input # << >> =>
    (AssignmentStores /\ ReadsAssigned(SymNames \ {NAME_PI, NAME_E}))

\* a /= 2, a on a = 1 gave 1/2, which is what a now holds.
C5_DivideAssign ==
  /\ input = <<"assign", <<"a">>, "/=", <<"2">>, "then read", One>>
  /\ result = Mk(1, 2)
  /\ LookupSymbol(Cur, <<"a">>) = Mk(1, 2)

\* C7 -- every Evaluate call starts by storing M_PI under pi and M_E under
\* e, whatever was stored under them before and whether or not the call
\* aborts later: a call that does not assign to pi (to e) leaves the constant
\* there and a reference to pi reads it, an assignment to pi is read by the
\* rest of its call, and a SaveSymbol on pi holds until the next Evaluate.
C7_SeededAtEveryCall ==
  /\ call[1] = "Evaluate" =>
       /\ Len(saves) >= 2
       /\ saves[1] = <<NAME_PI, M_PI>>
       /\ saves[2] = <<NAME_E, M_E>>
       /\ \A c \in {<<NAME_PI, M_PI>>, <<NAME_E, M_E>>} :
            (\A k \in 3..Len(saves) : saves[k][1] # c[1]) =>
              LookupSymbol(Cur, c[1]) = c[2]
  /\ (input # << >> /\ input[1] = "read" /\ input[2] = NAME_PI) =>
       result = M_PI
  /\ (input # << >> /\ input[1] = "assign" /\ input[2] = NAME_PI /\ ~jumped
        /\ input[5] = "then read") =>
       result = saves[Len(saves)][2]
  /\ (call[1] = "SaveSymbol" /\ call[2] = NAME_PI) =>
       LookupSymbol(Cur, NAME_PI) = call[3]

\* pi /= 0 was called while pi held 2: the call aborted and pi is M_PI.
C7_ReseededBeforeAbort ==
  /\ input = <<"assign", NAME_PI, "/=", <<"0">>, "alone", Num(2)>>
  /\ jumped
  /\ LookupSymbol(Cur, NAME_PI) = M_PI

(***************************************************************************)
(* SpecCap: a host that keeps storing new names, n000, n001, ..., each by  *)
(* a SaveSymbol call or, on the empty table and when the table is within   *)
(* two entries of MAX_VARS, by an assignment in an expression.             *)
(***************************************************************************)
\* The name n followed by the three digits of k.
NameOf(k) ==
  <<"n", DigitChar(k \div 100), DigitChar((k \div 10) % 10), DigitChar(k % 10)>>

CapSave ==
  /\ SaveSymbolCall(NameOf(num_vars), One)
  /\ input' = << >>

CapAssign ==
  /\ num_vars = 0 \/ num_vars + 2 >= MAX_VARS
  /\ EvaluateCall(NameOf(num_vars) \o <<"=", "1">>)
  /\ input' = << >>

CapNext == CapSave \/ CapAssign

SpecCap == Init /\ [][CapNext]_vars

(***************************************************************************)
(* Properties of SpecCap.                                                  *)
(***************************************************************************)
\* C8 -- no two entries of the symbol table carry the same name, num_vars
\* is the number of distinct names ever stored, and LookupSymbol of a stored
\* name other than time and timems returns the value last stored under it.
C8_TableIsAMap ==
  /\ \A i, j \in 1..num_vars : i # j => vars_lhs[i] # vars_lhs[j]
  /\ num_vars = Cardinality(DOMAIN stored)
  /\ \A n \in DOMAIN stored \ {NAME_TIME, NAME_TIMEMS} :
       LookupSymbol(Cur, n) = stored[n]

\* C9 -- however many distinct names have been stored, no store wrote
\* outside the vars_lhs and vars_rhs arrays and each name is retrievable
\* with its value.
C9_UnlimitedNames ==
  /\ ~oob
  /\ \A n \in DOMAIN stored : LookupSymbol(Cur, n) = stored[n]

(***************************************************************************)
(* SpecEff: calls whose assignments sit before or after an error, or in    *)
(* an operand of && or || or an argument of if.                            *)
(***************************************************************************)
EffExprs ==
  {
    <<"b","=","(","1","/","0",")",","," ","c","=","7">>,                       \* b=(1/0), c=7
    <<"a","=","5",","," ","1","/","0">>,                                       \* a=5, 1/0
    <<"a","=","5",","," ","b","=","6",","," ","$">>,                           \* a=5, b=6, $
    <<"(","c","=","7",")"," ","+"," ","(","1","/","0",")"," ","+"," ","(","a","=","1",")">>, \* (c=7) + (1/0) + (a=1)
    <<"0"," ","&","&"," ","(","a","=","5",")">>,                               \* 0 && (a=5)
    <<"1"," ","|","|"," ","(","b","=","6",")">>,                               \* 1 || (b=6)
    <<"1"," ","&","&"," ","(","a","=","1",")">>,                               \* 1 && (a=1)
    <<"0"," ","|","|"," ","(","b","=","2",")">>,                               \* 0 || (b=2)
    <<"i","f","(","1",","," ","a","=","1",","," ","b","=","2",")">>,           \* if(1, a=1, b=2)
    <<"i","f","(","0",","," ","a","=","1",","," ","b","=","2",")">>,           \* if(0, a=1, b=2)
    <<"a">>,                                                                   \* a
    <<"b">>,                                                                   \* b
    <<"c">>,                                                                   \* c
    <<"a","+","b","+","c">>                                                    \* a+b+c
  }

EffEvaluate == \E txt \in EffExprs : EvaluateCall(txt) /\ input' = << >>

EffNext == EffEvaluate

SpecEff == Init /\ [][EffNext]_vars

(***************************************************************************)
(* Properties of SpecEff.                                                  *)
(***************************************************************************)
\* The SaveSymbol calls of the last call after the two seeds.
OwnSaves == SubSeq(saves, 3, Len(saves))

\* C12 -- once runtime_error has been called in an Evaluate call, the call
\* is aborted, no further token is read and no further SaveSymbol call is
\* made; in b=(1/0), c=7 nothing but the seeds is stored.
C12_NothingAfterError ==
  call[1] = "Evaluate" =>
    /\ (GetParserErr # << >>) <=> (errAt # << >>)
    /\ errAt # << >> =>
         /\ jumped
         /\ Len(saves) = errAt[1]
         /\ Len(tokens) = errAt[2]
    /\ call[2] = <<"b","=","(","1","/","0",")",","," ","c","=","7">> => (errAt # << >> /\ OwnSaves = << >>)

\* b=(1/0), c=7 stopped at the division, seven tokens into the text, with
\* neither b nor c stored.
C12_AbortedAssignment ==
  /\ call = <<"Evaluate", <<"b","=","(","1","/","0",")",","," ","c","=","7">>>>
  /\ jumped
  /\ ErrFmt = "Divide by zero"
  /\ errAt = <<2, 7>>
  /\ tokens[7][1] = ")"
  /\ ~InTable(<<"b">>)
  /\ ~InTable(<<"c">>)

\* C13 -- after an Evaluate call that aborted, every name the call had
\* assigned to before the error holds the value last assigned to it in that
\* call: after a=5, 1/0 the call returned NaN and a is 5.
C13_NoRollback ==
  (call[1] = "Evaluate" /\ jumped) =>
    /\ result = NaN
    /\ \A k \in 1..Len(OwnSaves) :
         LookupSymbol(Cur, OwnSaves[k][1]) =
           Replay(<< >>, OwnSaves)[OwnSaves[k][1]]
    /\ call[2] = <<"a","=","5",","," ","1","/","0">> => OwnSaves = << <<<<"a">>, Num(5)>> >>

\* a=5, 1/0 aborted with a divide by zero and a reads 5.
C13_AssignedThenAborted ==
  /\ call = <<"Evaluate", <<"a","=","5",","," ","1","/","0">>>>
  /\ jumped
  /\ result = NaN
  /\ ErrFmt = "Divide by zero"
  /\ LookupSymbol(Cur, <<"a">>) = Num(5)

\* Texts with an assignment in an operand of && or || or in an argument of
\* if, each with its value and with the stores it makes when every operand
\* and argument is evaluated, left to right.
EagerCases ==
  {
    <<<<"0"," ","&","&"," ","(","a","=","5",")">>, Zero, << <<<<"a">>, Num(5)>> >> >>,
    <<<<"1"," ","|","|"," ","(","b","=","6",")">>, One, << <<<<"b">>, Num(6)>> >> >>,
    <<<<"1"," ","&","&"," ","(","a","=","1",")">>, One, << <<<<"a">>, One>> >> >>,
    <<<<"0"," ","|","|"," ","(","b","=","2",")">>, One, << <<<<"b">>, Num(2)>> >> >>,
    <<<<"i","f","(","1",","," ","a","=","1",","," ","b","=","2",")">>, One,
      << <<<<"a">>, One>>, <<<<"b">>, Num(2)>> >> >>,
    <<<<"i","f","(","0",","," ","a","=","1",","," ","b","=","2",")">>, Num(2),
      << <<<<"a">>, One>>, <<<<"b">>, Num(2)>> >> >>
  }

\* C14 -- both operands of && and || and all three arguments of if are
\* evaluated, left to right, whatever the left operand or the test is: the
\* assignments inside them are all made, in that order.
C14_EagerOperands ==
  \A c \in EagerCases :
    call = <<"Evaluate", c[1]>> =>
      /\ ~jumped
      /\ result = c[2]
      /\ OwnSaves = c[3]

\* 0 && (a=5) gave 0 and a reads 5.
C14_FalseAndAssigns ==
  /\ call = <<"Evaluate", <<"0"," ","&","&"," ","(","a","=","5",")">>>>
  /\ result = Zero
  /\ LookupSymbol(Cur, <<"a">>) = Num(5)

(***************************************************************************)
(* SpecPow: one call on a text of three literals joined by two of ^, * and *)
(* /, at most one of the literals behind a unary - or !.                   *)
(***************************************************************************)
TermOps == {"^", "*", "/"}
Unaries == {"", "-", "!"}

\* A literal, behind its unary operator if it has one.
UnaryText(u, k) ==
  IF u = "" THEN <<DigitChar(k)>> ELSE <<u, " ", DigitChar(k)>>

PowText(u, a, op1, b, op2, c) ==
  UnaryText(u[1], a) \o <<" ", op1, " ">> \o UnaryText(u[2], b)
    \o <<" ", op2, " ">> \o UnaryText(u[3], c)

PowEvaluate ==
  /\ call = <<"none">>
  /\ \E u \in [1..3 -> Unaries], a \in 0..MaxLit, b \in 0..MaxLit,
        c \in 0..MaxLit, op1 \in TermOps, op2 \in TermOps :
       /\ Cardinality({i \in 1..3 : u[i] # ""}) <= 1
       /\ EvaluateCall(PowText(u, a, op1, b, op2, c))
       /\ input' = <<u, a, op1, b, op2, c>>

PowNext == PowEvaluate

SpecPow == Init /\ [][PowNext]_vars

(***************************************************************************)
(* Properties of SpecPow.                                                  *)
(***************************************************************************)
\* The value of a literal behind its unary operator.
UnaryValue(u, k) ==
  CASE u = "" -> Num(k)
    [] u = "-" -> Neg(Num(k))
    [] u = "!" -> Bool(k = 0)

\* (x op1 y) op2 z on the three operands, each with its unary operator
\* applied first.
LeftGrouped ==
  RefApply(input[5],
           RefApply(input[3], UnaryValue(input[1][1], input[2]),
                    UnaryValue(input[1][2], input[4])),
           UnaryValue(input[1][3], input[6]))

\* C15 -- ^, * and / share one precedence level and associate left to
\* right: x op1 y op2 z is (x op1 y) op2 z for every choice of the two
\* among them, so a*b^c is (a*b)^c and a^b^c is (a^b)^c; a unary - or ! is
\* applied to its operand before any of the three.
C15_PowerGroupsLeft ==
  call[1] = "Evaluate" =>
    IF LeftGrouped = RefAbort
    THEN jumped /\ ErrFmt = "Divide by zero"
    ELSE ~jumped /\ result = LeftGrouped

\* 2 * 3 ^ 2 gave 36.
C15_TimesThenPower ==
  /\ input = <<[i \in 1..3 |-> ""], 2, "*", 3, "^", 2>>
  /\ result = Num(36)

(***************************************************************************)
(* SpecSign: one call on a text with a + or - right before a literal, the  *)
(* sign either following a completed operand or standing where an operand  *)
(* starts.                                                                 *)
(***************************************************************************)
\* Completed operands: the text, its token types and its value.
SignOperands ==
  {
    <<<<"2">>, <<"NUMBER">>, Num(2)>>,
    <<<<"a">>, <<"NAME">>, NaN>>,
    <<<<"(","2","+","3",")">>, <<"(", "NUMBER", "+", "NUMBER", ")">>, Num(5)>>,
    <<<<"a","b","s","(","2",")">>, <<"NAME", "(", "NUMBER", ")">>, Num(2)>>,
    <<<<"m","i","n","(","1",",","2",")">>, <<"NAME", "(", "NUMBER", ",", "NUMBER", ")">>, One>>,
    <<<<"i","f","(","1",",","2",",","3",")">>,
      <<"NAME", "(", "NUMBER", ",", "NUMBER", ",", "NUMBER", ")">>, Num(2)>>
  }

\* Places where an operand starts: the text before, its token types, the
\* text after and its token types.
SignOpeners ==
  {
    <<<< >>, << >>, << >>, << >> >>,
    <<<<"2","*">>, <<"NUMBER", "*">>, << >>, << >> >>,
    <<<<"2","+">>, <<"NUMBER", "+">>, << >>, << >> >>,
    <<<<"(">>, <<"(">>, <<")">>, <<")">> >>,
    <<<<"1",",">>, <<"NUMBER", ",">>, << >>, << >> >>,
    <<<<"a","=">>, <<"NAME", "=">>, << >>, << >> >>,
    <<<<"a","b","s","(">>, <<"NAME", "(">>, <<")">>, <<")">> >>,
    <<<<"2","<">>, <<"NUMBER", "<">>, << >>, << >> >>
  }

\* Unsigned literals: the text and its value.
SignLiterals ==
  {<<<<DigitChar(k)>>, Num(k)>> : k \in 0..MaxLit}
    \cup {<<<<".","5">>, Mk(1, 2)>>, <<<<"1",".","5">>, Mk(3, 2)>>, <<<<".","2","5">>, Mk(1, 4)>>}

SignAfterOperand ==
  /\ call = <<"none">>
  /\ \E o \in SignOperands, sign \in {"+", "-"}, l \in SignLiterals :
       /\ EvaluateCall(o[1] \o <<sign>> \o l[1])
       /\ input' = <<"after", o, sign, l>>

SignAtStart ==
  /\ call = <<"none">>
  /\ \E o \in SignOpeners, sign \in {"+", "-"}, l \in SignLiterals :
       /\ EvaluateCall(o[1] \o <<sign>> \o l[1] \o o[3])
       /\ input' = <<"start", o, sign, l>>

SignNext == SignAfterOperand \/ SignAtStart

SpecSign == Init /\ [][SignNext]_vars

(***************************************************************************)
(* Properties of SpecSign.                                                 *)
(***************************************************************************)
\* The types of the tokens the last call read, in order.
TokenTypes == [k \in 1..Len(tokens) |-> tokens[k][1]]

\* The value of the literal of input behind the sign of input.
SignedValue == IF input[3] = "+" THEN input[4][2] ELSE Neg(input[4][2])

\* C16 -- a + or - that follows a completed operand (a number, a name, a
\* closing parenthesis, a function call) is read as the operator even with a
\* digit or a point right after it, and the call adds or subtracts; where an
\* operand starts (start of the text, after an operator, after '(' or ',')
\* the sign and the digits or point after it are read as one NUMBER token.
C16_SignAfterOperandIsBinary ==
  call[1] = "Evaluate" =>
    /\ ~jumped
    /\ input[1] = "after" =>
         /\ TokenTypes = input[2][2] \o <<input[3], "NUMBER", "END">>
         /\ result = Add(input[2][3], SignedValue)
    /\ input[1] = "start" =>
         /\ TokenTypes = input[2][2] \o <<"NUMBER">> \o input[2][4] \o <<"END">>
         /\ tokens[Len(input[2][2]) + 1] =
              <<"NUMBER", Len(input[2][1]) + 1,
                Len(input[2][1]) + 2 + Len(input[4][1])>>
         /\ input[2][1] = << >> => result = SignedValue
         /\ input[2][1] = <<"2","*">> => result = Mul(Num(2), SignedValue)

\* (2+3)-1 was read as a subtraction and gave 4.
C16_MinusAfterParenthesis ==
  /\ call = <<"Evaluate", <<"(","2","+","3",")","-","1">>>>
  /\ TokenTypes = <<"(", "NUMBER", "+", "NUMBER", ")", "-", "NUMBER", "END">>
  /\ result = Num(4)

(***************************************************************************)
(* SpecName: one call on a short text of letters, digits, underscores and  *)
(* a plus sign, in every order.                                            *)
(***************************************************************************)
\* The longest text of SpecName.
MaxName == 3

NameAlphabet == {"a", "Z", "_", "7", "+"}

NameTexts == UNION {[1..n -> NameAlphabet] : n \in 1..MaxName}

NameEvaluate ==
  /\ call = <<"none">>
  /\ \E txt \in NameTexts :
       /\ EvaluateCall(txt)
       /\ input' = txt

NameNext == NameEvaluate

SpecName == Init /\ [][NameNext]_vars

(***************************************************************************)
(* Properties of SpecName.                                                 *)
(***************************************************************************)
\* The characters a name is made of after its first.
NameChars == Lower \cup Upper \cup Digits \cup {"_"}

\* The offset behind the longest run of name characters of txt from i.
NameRun(txt, i) ==
  CHOOSE j \in i..(Len(txt) + 1) :
    /\ \A k \in i..(j - 1) : txt[k] \in NameChars
    /\ CharAt(txt, j) \notin NameChars

\* The tokens of the last call are names exactly where a token starts with
\* a character of Start, and a name runs to the end of its name characters.
NamesStartWith(Start) ==
  /\ \A k \in 1..Len(tokens) :
       /\ tokens[k][1] = "NAME" <=> CharAt(input, tokens[k][2]) \in Start
       /\ tokens[k][1] = "NAME" => tokens[k][3] = NameRun(input, tokens[k][2])
  /\ CharAt(input, 1) \in Start =>
       /\ tokens # << >>
       /\ tokens[1] = <<"NAME", 1, NameRun(input, 1)>>

\* Where the token after the last one read starts (the texts have no spaces).
NextStart == IF tokens = << >> THEN 1 ELSE tokens[Len(tokens)][3]

\* C17 as stated -- the lexer produces a NAME token for exactly the maximal
\* substrings matching [A-Za-z_][A-Za-z0-9_]*, so a text that starts with an
\* underscore (such as _x) starts with a name.
C17_UnderscoreStartsName ==
  call[1] = "Evaluate" => NamesStartWith(Lower \cup Upper \cup {"_"})

\* C17 -- a token is a NAME exactly when it starts with a letter, and it then
\* runs over the letters, digits and underscores that follow; a token that
\* starts with an underscore is no name: the call aborts at it with
\* "Unexpected character '_'" and returns NaN.
C17_LetterStartsName ==
  call[1] = "Evaluate" =>
    /\ NamesStartWith(Lower \cup Upper)
    /\ ErrFmt = "Unexpected character '%c'" =>
         /\ GetParserErr[3] = <<CharAt(input, NextStart)>>
         /\ GetParserErr[3][1] \notin Lower \cup Upper
    /\ CharAt(input, 1) = "_" =>
         /\ jumped
         /\ tokens = << >>
         /\ result = NaN
         /\ GetParserErr = <<"Error! ", "Unexpected character '%c'", <<"_">>>>

\* _a was refused at its underscore, a_7 was read as one name.
C17_UnderscoreRefused ==
  /\ call = <<"Evaluate", <<"_", "a">>>>
  /\ jumped
  /\ tokens = << >>
  /\ GetParserErr = <<"Error! ", "Unexpected character '%c'", <<"_">>>>

(***************************************************************************)
(* SpecRand: one call percent(x) or rand(x), for each value rand() may     *)
(* return that gives getrandom(100) one of its results 0..99.              *)
(***************************************************************************)
\* The arguments given to percent and to rand.
PercentArgs == {-1, 0, 1, 2, 50, 99, 100, 101}
RandArgs == {0, 1, 2, 100}

\* The least value of rand() for which getrandom(100) is d.
RandFor(d) == (d * (RAND_MAX + 1) + 99) \div 100

RECURSIVE IntText(_)
\* The decimal text of an integer.
IntText(x) ==
  IF x < 0 THEN <<"-">> \o IntText(-x)
  ELSE IF x < 10 THEN <<DigitChar(x)>>
  ELSE IntText(x \div 10) \o <<DigitChar(x % 10)>>

RandPercent ==
  /\ call = <<"none">>
  /\ \E x \in PercentArgs, d \in 0..99 :
       /\ EvaluateCallWith(<<"p","e","r","c","e","n","t","(">> \o IntText(x) \o <<")">>,
                           <<RandFor(d)>>)
       /\ input' = <<"percent", x, d>>

RandRandom ==
  /\ call = <<"none">>
  /\ \E x \in RandArgs, r \in {RandFor(d) : d \in 0..99} \cup {RAND_MAX} :
       /\ EvaluateCallWith(<<"r","a","n","d","(">> \o IntText(x) \o <<")">>, <<r>>)
       /\ input' = <<"rand", x, r>>

RandNext == RandPercent \/ RandRandom

SpecRand == Init /\ [][RandNext]_vars

(***************************************************************************)
(* Properties of SpecRand.                                                 *)
(***************************************************************************)
\* The results d of getrandom(100) for which percent(x) is true.
PercentHits(x) ==
  {d \in 0..99 : percent([Cur EXCEPT !.rands = <<RandFor(d)>>], x).ret = One}

\* C18 as stated -- for 0 < x < 100, percent(x) returns 1.0 for exactly x of
\* the 100 results 0..99 of its getrandom(100) draw; for x <= 0 it returns
\* 0.0 and for x >= 100 it returns 1.0.
C18_PercentIsXInHundred ==
  (call[1] = "Evaluate" /\ input[1] = "percent") =>
    /\ ~jumped
    /\ result = Bool(input[3] \in PercentHits(input[2]))
    /\ input[2] <= 0 => result = Zero
    /\ input[2] >= 100 => result = One
    /\ (0 < input[2] /\ input[2] < 100) =>
         Cardinality(PercentHits(input[2])) = input[2]

(***************************************************************************)
(* SpecLen: one call on a text whose name or number is about as long as    *)
(* word_.                                                                  *)
(***************************************************************************)
\* How far below and above MAX_WORD the lengths of the tokens go.
LenSpan == 8

\* The character c, n times.
Rep(c, n) == [i \in 1..n |-> c]

\* What follows the long token.
LenTails == {<< >>, <<"+", "1">>, <<"=", "1">>}

LenName ==
  /\ call = <<"none">>
  /\ \E n \in (MAX_WORD - LenSpan)..(MAX_WORD + LenSpan), t \in LenTails :
       /\ EvaluateCall(Rep("a", n) \o t)
       /\ input' = <<"name", n, t>>

LenNumber ==
  /\ call = <<"none">>
  /\ \E n \in (MAX_WORD - LenSpan)..(MAX_WORD + LenSpan) :
       /\ EvaluateCall(Rep("0", n))
       /\ input' = <<"number", n, << >> >>

LenNext == LenName \/ LenNumber

SpecLen == Init /\ [][LenNext]_vars

(***************************************************************************)
(* Properties of SpecLen.                                                  *)
(***************************************************************************)
\* C20 -- every Evaluate call returns, with a value or after an abort; each
\* token other than END that GetToken yields leaves the cursor further on
\* than it found it, and the call reads no more tokens than the text has
\* characters, and the END.
C20_ReturnsWithProgress ==
  call[1] = "Evaluate" =>
    /\ ~crashed
    /\ \A k \in 1..Len(tokens) :
         tokens[k][1] # "END" => tokens[k][3] > tokens[k][2]
    /\ Len(tokens) <= Len(call[2]) + 1

=============================================================================
